---- MODULE Spec2Model ----
(***************************************************************************)
(* PPI Network Explorer backend (FaisalTabrez/Prot_Map).                   *)
(* Model of the knowledge cache (database.py), the classifier collaborator *)
(* (ai_service.py) and the /analyze and /confirm-categories handlers       *)
(* (main.py).  A string is a sequence of one-character strings, a Python   *)
(* list is a sequence, a Python dict is a sequence of [k, v] records in    *)
(* insertion order.                                                        *)
(***************************************************************************)
EXTENDS Integers, Sequences, FiniteSets, TLC

VARIABLES
    categories,   \* table categories(id, name unique, color)
    genes,        \* table genes(id, symbol unique, category_id, description)
    apiKey,       \* GEMINI_API_KEY is configured
    pc,           \* per request slot: "idle", "fetching" (at the await), "done"
    req,          \* per slot: the request being handled
    missing,      \* per slot: missing_symbols of enrich_missing_genes
    tasks,        \* per slot: the classifier tasks completed so far
    trace,        \* per slot: the calls the handler has made, with their results
    resp,         \* per slot: the response of the handler
    nreq,         \* number of requests accepted so far
    watch,        \* one earlier request a caller follows up on
    net,          \* an analysis run on its own: its input and its result
    lookup        \* a cache lookup run on its own: its input and its result

vars == <<categories, genes, apiKey, pc, req, missing, tasks, trace, resp,
          nreq, watch, net, lookup>>

\* ------------------------------------------------------------------ bounds
\* Number of requests (of either endpoint) accepted in one behaviour in which
\* requests may overlap.
MaxRequests == 2

\* Number of requests accepted in one behaviour in which they run one after
\* another.
MaxSeqRequests == 4

\* Longest gene list submitted to /analyze.
MaxGenes == 2

\* Longest list of categories or of genes in a hand-written approval.
MaxPayload == 2

\* Longest list of symbols or of names in a cache lookup run on its own.
MaxLookup == 2

\* Longest interaction list of an analysis run on its own.
MaxRecords == 2

\* The two request slots that may be in flight at the same time.
Requests == {1, 2}

\* ----------------------------------------------------------------- strings
Lowers == <<"a", "b", "c", "d", "e", "f", "k", "n", "o", "u", "w">>
Uppers == <<"A", "B", "C", "D", "E", "F", "K", "N", "O", "U", "W">>

IndexIn(c, tbl) == CHOOSE i \in 1..Len(tbl) : tbl[i] = c

IsLower(c) == \E i \in 1..Len(Lowers) : Lowers[i] = c
IsUpper(c) == \E i \in 1..Len(Uppers) : Uppers[i] = c
IsLetter(c) == IsLower(c) \/ IsUpper(c)

ToUpper(c) == IF IsLower(c) THEN Uppers[IndexIn(c, Lowers)] ELSE c
ToLower(c) == IF IsUpper(c) THEN Lowers[IndexIn(c, Uppers)] ELSE c

\* Order of the characters, and str.__lt__.
CodePoints == <<" ">> \o Uppers \o Lowers

RECURSIVE StrLess(_, _)
StrLess(s, t) ==
    IF t = <<>> THEN FALSE
    ELSE IF s = <<>> THEN TRUE
    ELSE IF Head(s) = Head(t) THEN StrLess(Tail(s), Tail(t))
    ELSE IndexIn(Head(s), CodePoints) < IndexIn(Head(t), CodePoints)

\* str.upper()
Upper(s) == [i \in 1..Len(s) |-> ToUpper(s[i])]

\* str.strip()
RECURSIVE StripLeft(_)
StripLeft(s) == IF s # <<>> /\ Head(s) = " " THEN StripLeft(Tail(s)) ELSE s

RECURSIVE StripRight(_)
StripRight(s) ==
    IF s # <<>> /\ s[Len(s)] = " " THEN StripRight(SubSeq(s, 1, Len(s) - 1)) ELSE s

Strip(s) == StripRight(StripLeft(s))

\* str.title(): a letter that follows a non-letter is uppercased, any other
\* letter is lowercased.
Title(s) ==
    [i \in 1..Len(s) |->
        IF i = 1 \/ ~IsLetter(s[i - 1]) THEN ToUpper(s[i]) ELSE ToLower(s[i])]

\* --------------------------------------------------------- generic helpers
Range(f) == {f[i] : i \in DOMAIN f}

SeqsUpTo(S, n) == UNION {[1..k -> S] : k \in 0..n}

\* The orders in which a Python set may be iterated.
Orders(S) == {s \in [1..Cardinality(S) -> S] : Range(s) = S}

\* Python dict: d[k] = v keeps the position of an existing key.
DictHas(d, k) == \E i \in 1..Len(d) : d[i].k = k
DictGet(d, k) == d[CHOOSE i \in 1..Len(d) : d[i].k = k].v
DictSet(d, k, v) ==
    IF DictHas(d, k)
    THEN [i \in 1..Len(d) |-> IF d[i].k = k THEN [k |-> k, v |-> v] ELSE d[i]]
    ELSE Append(d, [k |-> k, v |-> v])
DictKeys(d) == {d[i].k : i \in 1..Len(d)}

\* ------------------------------------------------------------------ inputs
\* Gene symbols a caller may type: a symbol in lower case, a symbol in upper
\* case and a blank entry.
RawSymbols == {<<"a">>, <<"B">>, <<" ">>}

GeneLists == SeqsUpTo(RawSymbols, MaxGenes)

\* Category texts the classifier may answer, before normalisation.
RawCategories == {<<"k">>, <<" ", "K">>}

\* Description texts the classifier may answer.
RawDescriptions == {<<"d">>}

\* Category names and descriptions an approval payload may carry.
PayloadCategories == {<<"K">>}
PayloadDescriptions == {<<"e">>}
PayloadSymbols == {<<"A">>}

\* Symbols and category names looked up in the cache on their own: case
\* variants of a symbol and of a name, and one more of each.
LookupSymbols == {<<"b">>, <<"B">>, <<"a">>}

LookupNames == {<<"K">>, <<"k">>, <<"U">>}

\* Answers of the interaction-evidence source.
InteractionLists ==
    { <<>>,
      <<[preferredName_A |-> <<"A">>, preferredName_B |-> <<"B">>, score |-> 900]>> }

\* Labels the evidence source may use in a record, and the records of the
\* analyses run on their own.
NetLabels == {<<"A">>, <<"a", " ">>, <<"B">>}

NetRecords ==
    [preferredName_A : NetLabels, preferredName_B : NetLabels, score : {900}]

\* Two triangles without an edge between them, on six labels: their records
\* in any order, each record as listed or with its two names exchanged.
TriangleEdges ==
    {<<(<<"A">>), (<<"B">>)>>, <<(<<"B">>), (<<"C">>)>>, <<(<<"A">>), (<<"C">>)>>,
     <<(<<"D">>), (<<"E">>)>>, <<(<<"E">>), (<<"F">>)>>, <<(<<"D">>), (<<"F">>)>>}

TriangleLists ==
    {[i \in 1..Cardinality(TriangleEdges) |->
         [preferredName_A |-> IF flip THEN o[i][2] ELSE o[i][1],
          preferredName_B |-> IF flip THEN o[i][1] ELSE o[i][2],
          score |-> 900]] :
     o \in Orders(TriangleEdges), flip \in BOOLEAN}

\* The two triangles joined by one more record, C-D, given before or after
\* the records of the triangles, of which A-B is the first: seven records on
\* six labels, of degrees 2 and 3.
BridgeRecord ==
    [preferredName_A |-> <<"C">>, preferredName_B |-> <<"D">>, score |-> 900]

BridgedLists ==
    {IF first THEN <<BridgeRecord>> \o l ELSE l \o <<BridgeRecord>> :
     l \in {t \in TriangleLists : /\ t[1].preferredName_A = <<"A">>
                                  /\ t[1].preferredName_B = <<"B">>},
     first \in BOOLEAN}

NetInteractionLists ==
    SeqsUpTo(NetRecords, MaxRecords) \cup TriangleLists \cup BridgedLists

\* --------------------------------------------------------------- models.py
DefaultColor == <<"#", "8", "0", "8", "0", "8", "0">>

Category(id, name, color) == [id |-> id, name |-> name, color |-> color]

Gene(id, symbol, category_id, description) ==
    [id |-> id, symbol |-> symbol, category_id |-> category_id,
     description |-> description]

\* The row a unique column rejects: one whose key is already in the table.
UniqueViolation_off(table, key, value) == FALSE

UniqueViolation(table, key, value) == \E i \in 1..Len(table) : table[i][key] = value

\* ------------------------------------------------------------- database.py
\* Python values of the two types a bulk write can return.
PyInt(n) == [type |-> "int", val |-> n]
None == [type |-> "NoneType", val |-> 0]

\* Variant of Rollback that keeps the rows flushed before the failure.
Rollback_partial(committedRows, workingRows) == workingRows

\* Session.rollback(): the rows written since the last commit are dropped.
Rollback(committedRows, workingRows) == committedRows

\* Session.bulk_save_objects(): the rows are inserted one after another in
\* the open transaction; the first row that violates the unique column
\* raises, leaving the earlier rows of the batch pending in the transaction.
RECURSIVE BulkSaveObjects(_, _, _)
BulkSaveObjects(table, objects, key) ==
    IF objects = <<>> THEN [raised |-> FALSE, table |-> table]
    ELSE IF UniqueViolation(table, key, Head(objects)[key])
         THEN [raised |-> TRUE, table |-> table]
         ELSE BulkSaveObjects(
                  Append(table, [Head(objects) EXCEPT !.id = Len(table) + 1]),
                  Tail(objects), key)

get_genes_by_symbols(geneRows, symbols) ==
    LET normalized_symbols == [i \in 1..Len(symbols) |-> Upper(symbols[i])]
        found == SelectSeq(geneRows, LAMBDA g : g.symbol \in Range(normalized_symbols))
    IN  [i \in 1..Len(found) |-> [k |-> found[i].symbol, v |-> found[i]]]

\* Variant of bulk_create_genes that overwrites the row of a symbol that
\* already has one.
bulk_create_genes_upsert(geneRows, genes_data) ==
    LET named(g) == {i \in DOMAIN genes_data : Upper(genes_data[i].symbol) = g.symbol}
        last(g) == genes_data[CHOOSE i \in named(g) : \A j \in named(g) : j <= i]
        updated == [k \in DOMAIN geneRows |->
                       IF named(geneRows[k]) = {} THEN geneRows[k]
                       ELSE Gene(geneRows[k].id, geneRows[k].symbol,
                                 last(geneRows[k]).category_id,
                                 last(geneRows[k]).description)]
        fresh == SelectSeq(genes_data,
                           LAMBDA d : \A k \in DOMAIN geneRows :
                                         geneRows[k].symbol # Upper(d.symbol))
        saved == BulkSaveObjects(updated,
                                 [i \in 1..Len(fresh) |->
                                     Gene(0, Upper(fresh[i].symbol), fresh[i].category_id,
                                          fresh[i].description)],
                                 "symbol")
    IN  [rows |-> IF saved.raised THEN updated ELSE saved.table,
         raised |-> FALSE, ret |-> PyInt(Len(genes_data))]

bulk_create_genes(geneRows, genes_data) ==
    LET gene_objects ==
            [i \in 1..Len(genes_data) |->
                Gene(0, Upper(genes_data[i].symbol), genes_data[i].category_id,
                     genes_data[i].description)]
        saved == BulkSaveObjects(geneRows, gene_objects, "symbol")
    IN  IF saved.raised
        THEN [rows |-> Rollback(geneRows, saved.table), raised |-> TRUE,
              ret |-> PyInt(0)]
        ELSE [rows |-> saved.table, raised |-> FALSE,
              ret |-> PyInt(Len(gene_objects))]

\* Variant of get_categories_by_names that reports each row under the id
\* the next insert would take.
get_categories_by_names_next_id(categoryRows, names) ==
    LET found == SelectSeq(categoryRows, LAMBDA c : c.name \in Range(names))
    IN  [i \in 1..Len(found) |->
            [k |-> found[i].name,
             v |-> [found[i] EXCEPT !.id = Len(categoryRows) + 1]]]

get_categories_by_names(categoryRows, names) ==
    LET found == SelectSeq(categoryRows, LAMBDA c : c.name \in Range(names))
    IN  [i \in 1..Len(found) |-> [k |-> found[i].name, v |-> found[i]]]

\* Variant of bulk_create_categories that replaces the table by the batch.
bulk_create_categories_replacing(categoryRows, categories_data) ==
    LET category_objects ==
            [i \in 1..Len(categories_data) |->
                Category(i, categories_data[i].name, categories_data[i].color)]
    IN  [rows |-> category_objects, raised |-> FALSE,
         ret |-> PyInt(Len(category_objects))]

bulk_create_categories(categoryRows, categories_data) ==
    LET category_objects ==
            [i \in 1..Len(categories_data) |->
                Category(0, categories_data[i].name, categories_data[i].color)]
        saved == BulkSaveObjects(categoryRows, category_objects, "name")
    IN  IF saved.raised
        THEN [rows |-> Rollback(categoryRows, saved.table), raised |-> TRUE,
              ret |-> None]
        ELSE [rows |-> saved.table, raised |-> FALSE,
              ret |-> PyInt(Len(category_objects))]

\* ----------------------------------------------------------- ai_service.py
GenePrefix == <<"G", "e", "n", "e", " ">>

PendingSuffix ==
    <<" ", "(", "a", "u", "t", "o", "-", "e", "n", "r", "i", "c", "h", "m", "e",
      "n", "t", " ", "p", "e", "n", "d", "i", "n", "g", ")">>

Unknown == <<"U", "n", "k", "n", "o", "w", "n">>

DescriptionLimit == 150
DescriptionKept == 147
Ellipsis == <<".", ".", ".">>

\* What the Gemini call does for one symbol: it raises, answers text that is
\* not JSON, answers JSON without a required field, or answers both fields.
AnswerKinds == {"ok", "api_error", "bad_json", "missing_field"}

Answers ==
    [kind : {"ok"}, category : RawCategories, description : RawDescriptions]
    \cup [kind : AnswerKinds \ {"ok"}, category : {<<>>}, description : {<<>>}]

\* Variant of default_response whose description starts with the symbol.
default_response_bare(gene_symbol) ==
    [description |-> gene_symbol \o PendingSuffix,
     category |-> Unknown]

default_response(gene_symbol) ==
    [description |-> GenePrefix \o gene_symbol \o PendingSuffix,
     category |-> Unknown]

fetch_gene_info(gene_symbol, key, answer) ==
    IF ~key THEN default_response(gene_symbol)
    ELSE IF answer.kind # "ok" THEN default_response(gene_symbol)
    ELSE [description |->
              IF Len(answer.description) > DescriptionLimit
              THEN SubSeq(answer.description, 1, DescriptionKept) \o Ellipsis
              ELSE answer.description,
          category |-> Title(Strip(Title(Strip(answer.category))))]

\* The classifier call of a task ended in the fallback.
CallFailed(key, answer) == ~key \/ answer.kind # "ok"

\* batch_fetch_genes after asyncio.gather: zip(gene_symbols, results) into a
\* dict keyed by symbol.upper(); a later task of the same key overwrites.
RECURSIVE batch_zip(_, _)
batch_zip(gene_data, done) ==
    IF done = <<>> THEN gene_data
    ELSE batch_zip(DictSet(gene_data, Upper(Head(done).symbol), Head(done).info),
                   Tail(done))

batch_fetch_genes(done) == batch_zip(<<>>, done)

\* ------------------------------------------------------------------ main.py
\* Exceptions a handler can see.
NoException == [type |-> "none", status_code |-> 0]
ValueError == [type |-> "ValueError", status_code |-> 0]
HTTPException(status_code) == [type |-> "HTTPException", status_code |-> status_code]

\* One call made by a handler, as recorded in trace: whether it failed, the
\* exception it raised to the handler, what it returned.
Call(op, failed, exc, ret) == [op |-> op, failed |-> failed, exc |-> exc, ret |-> ret]

\* enrich_missing_genes up to the await: the uppercased symbols without a row.
\* Variant of normalized_symbols that leaves the symbols as typed.
normalized_symbols_verbatim(gene_symbols) == gene_symbols

normalized_symbols(gene_symbols) ==
    [i \in 1..Len(gene_symbols) |-> Upper(gene_symbols[i])]

missing_symbols(geneRows, gene_symbols) ==
    LET existing_genes == get_genes_by_symbols(geneRows, normalized_symbols(gene_symbols))
        existing_symbols == DictKeys(existing_genes)
    IN  SelectSeq(normalized_symbols(gene_symbols), LAMBDA sym : sym \notin existing_symbols)

\* enrich_missing_genes after the await.
ai_categories(gene_info_map) ==
    {gene_info_map[i].v.category : i \in 1..Len(gene_info_map)}

existing_categories(categoryRows, gene_info_map) ==
    get_categories_by_names(categoryRows,
        CHOOSE l \in Orders(ai_categories(gene_info_map)) : TRUE)

new_category_set(categoryRows, gene_info_map) ==
    ai_categories(gene_info_map) \ DictKeys(existing_categories(categoryRows, gene_info_map))

\* Variant of pending_genes that reports the first classified symbol only.
pending_genes_head(gene_info_map) ==
    [i \in 1..(IF gene_info_map = <<>> THEN 0 ELSE 1) |->
        [symbol |-> gene_info_map[i].k,
         category |-> gene_info_map[i].v.category,
         description |-> gene_info_map[i].v.description]]

pending_genes(gene_info_map) ==
    [i \in 1..Len(gene_info_map) |->
        [symbol |-> gene_info_map[i].k,
         category |-> gene_info_map[i].v.category,
         description |-> gene_info_map[i].v.description]]

\* order is the order in which list() iterates the set of new categories.
\* Variant of enrich_evaluate that, when review is required, already saves
\* the genes whose category has a row.
enrich_evaluate_saving_known(categoryRows, geneRows, gene_info_map, order) ==
    LET known == SelectSeq(gene_info_map,
                           LAMBDA e : DictHas(existing_categories(categoryRows,
                                                                  gene_info_map),
                                              e.v.category))
        genes_to_insert ==
            [i \in 1..Len(known) |->
                [symbol |-> known[i].k,
                 category_id |-> DictGet(existing_categories(categoryRows, gene_info_map),
                                         known[i].v.category).id,
                 description |-> known[i].v.description]]
        w == bulk_create_genes(geneRows, genes_to_insert)
    IN  [review |-> new_category_set(categoryRows, gene_info_map) # {},
         new_categories |-> order,
         pending_genes |-> IF new_category_set(categoryRows, gene_info_map) # {}
                           THEN pending_genes(gene_info_map) ELSE <<>>,
         genes |-> IF genes_to_insert # <<>> THEN w.rows ELSE geneRows,
         calls |-> IF genes_to_insert # <<>>
                   THEN <<Call("bulk_create_genes", w.raised, NoException, w.ret)>>
                   ELSE <<>>]

enrich_evaluate(categoryRows, geneRows, gene_info_map, order) ==
    LET genes_to_insert ==
            [i \in 1..Len(gene_info_map) |->
                [symbol |-> gene_info_map[i].k,
                 category_id |-> DictGet(existing_categories(categoryRows, gene_info_map),
                                         gene_info_map[i].v.category).id,
                 description |-> gene_info_map[i].v.description]]
    IN  IF new_category_set(categoryRows, gene_info_map) # {}
        THEN [review |-> TRUE,
              new_categories |-> order,
              pending_genes |-> pending_genes(gene_info_map),
              genes |-> geneRows,
              calls |-> <<>>]
        ELSE IF genes_to_insert # <<>>
        THEN LET w == bulk_create_genes(geneRows, genes_to_insert)
             IN  [review |-> FALSE, new_categories |-> <<>>, pending_genes |-> <<>>,
                  genes |-> w.rows,
                  calls |-> <<Call("bulk_create_genes", w.raised, NoException, w.ret)>>]
        ELSE [review |-> FALSE, new_categories |-> <<>>, pending_genes |-> <<>>,
              genes |-> geneRows, calls |-> <<>>]

fetch_string_interactions(gene_list, answer) ==
    LET kept == SelectSeq(gene_list, LAMBDA g : Strip(g) # <<>>)
        cleaned_genes == [i \in 1..Len(kept) |-> Upper(Strip(kept[i]))]
        interactions == answer.interactions
        genes_in_network ==
            UNION {{Upper(interactions[i].preferredName_A),
                    Upper(interactions[i].preferredName_B)} : i \in 1..Len(interactions)}
    IN  IF cleaned_genes = <<>>
        THEN [exc |-> ValueError, interactions |-> <<>>,
              genes_found |-> <<>>, genes_not_found |-> <<>>]
        ELSE IF answer.kind = "RequestException"
        THEN [exc |-> HTTPException(503), interactions |-> <<>>,
              genes_found |-> <<>>, genes_not_found |-> <<>>]
        ELSE IF interactions = <<>>
        THEN [exc |-> NoException, interactions |-> <<>>,
              genes_found |-> <<>>, genes_not_found |-> cleaned_genes]
        ELSE [exc |-> NoException, interactions |-> interactions,
              genes_found |-> SelectSeq(cleaned_genes, LAMBDA g : g \in genes_in_network),
              genes_not_found |-> SelectSeq(cleaned_genes, LAMBDA g : g \notin genes_in_network)]

\* nx.Graph: the nodes in insertion order; the edges as [u, v, weight] in
\* insertion order, an edge between two nodes being stored once.
EmptyGraph == [nodes |-> <<>>, edges |-> <<>>]

add_node(nodes, n) == IF n \in Range(nodes) THEN nodes ELSE Append(nodes, n)

SameEdge(e, u, v) == (e.u = u /\ e.v = v) \/ (e.u = v /\ e.v = u)

\* G.add_edge(u, v, weight=w): both nodes are added, an existing edge keeps
\* its place and takes the new weight.
add_edge(G, u, v, weight) ==
    [nodes |-> add_node(add_node(G.nodes, u), v),
     edges |->
        IF \E i \in DOMAIN G.edges : SameEdge(G.edges[i], u, v)
        THEN [i \in DOMAIN G.edges |->
                 IF SameEdge(G.edges[i], u, v)
                 THEN [G.edges[i] EXCEPT !.weight = weight]
                 ELSE G.edges[i]]
        ELSE Append(G.edges, [u |-> u, v |-> v, weight |-> weight])]

\* The loop over the interactions: labels are used as they come.
RECURSIVE build_graph(_, _)
build_graph(G, interactions) ==
    IF interactions = <<>> THEN G
    ELSE build_graph(add_edge(G, Head(interactions).preferredName_A,
                              Head(interactions).preferredName_B,
                              Head(interactions).score),
                     Tail(interactions))

\* G.degree(n): a self-loop counts twice.
degree(G, n) ==
    Cardinality({i \in DOMAIN G.edges : G.edges[i].u = n})
    + Cardinality({i \in DOMAIN G.edges : G.edges[i].v = n})

\* nx.degree_centrality(G)[n] as the fraction num/den: 1 for every node of a
\* graph of at most one node, else degree / (|V| - 1).
degree_centrality(G, n) ==
    IF Len(G.nodes) <= 1 THEN [num |-> 1, den |-> 1]
    ELSE [num |-> degree(G, n), den |-> Len(G.nodes) - 1]

\* round(x, 4) of a fraction, in ten-thousandths.
round_4(x) == (2 * 10000 * x.num + x.den) \div (2 * x.den)

\* nx.betweenness_centrality(G), normalized, without endpoints: shortest
\* paths by breadth-first search from every source, exact arithmetic.
neighbors(G, n) ==
    {G.edges[i].v : i \in {j \in DOMAIN G.edges : G.edges[j].u = n}}
    \cup {G.edges[i].u : i \in {j \in DOMAIN G.edges : G.edges[j].v = n}}

\* Breadth-first search from a source: the distance table of the nodes it
\* reaches, level by level.
RECURSIVE shortest_paths(_, _, _, _)
shortest_paths(G, frontier, dist, k) ==
    IF frontier = {} THEN dist
    ELSE LET reached == dist @@ [t \in frontier |-> k]
         IN  shortest_paths(G,
                            UNION {neighbors(G, n) : n \in frontier} \ DOMAIN reached,
                            reached, k + 1)

\* The distance tables of a set of sources.
RECURSIVE all_shortest_paths(_, _)
all_shortest_paths(G, sources) ==
    IF sources = {} THEN <<>>
    ELSE LET s == CHOOSE x \in sources : TRUE
         IN  (s :> shortest_paths(G, {s}, <<>>, 0))
             @@ all_shortest_paths(G, sources \ {s})

RECURSIVE SumOf(_, _)
SumOf(f, S) ==
    IF S = {} THEN 0
    ELSE LET x == CHOOSE y \in S : TRUE
         IN  f[x] + SumOf(f, S \ {x})

\* sigma: the number of shortest paths from the source of a distance table
\* to t.
RECURSIVE path_count(_, _, _)
path_count(G, dist, t) ==
    IF dist[t] = 0 THEN 1
    ELSE LET preds == {u \in neighbors(G, t) : dist[u] = dist[t] - 1}
         IN  SumOf([u \in preds |-> path_count(G, dist, u)], preds)

RECURSIVE GCD(_, _)
GCD(a, b) == IF b = 0 THEN a ELSE GCD(b, a % b)

Fraction(num, den) ==
    LET g == GCD(num, den) IN [num |-> num \div g, den |-> den \div g]

RECURSIVE SumFractions(_, _)
SumFractions(f, S) ==
    IF S = {} THEN [num |-> 0, den |-> 1]
    ELSE LET x == CHOOSE y \in S : TRUE
             rest == SumFractions(f, S \ {x})
         IN  Fraction(f[x].num * rest.den + rest.num * f[x].den, f[x].den * rest.den)

\* The share of the shortest paths between the other nodes that pass through
\* v, each pair counted from both of its ends, divided by (n - 1)(n - 2) when
\* the graph has more than two nodes.
betweenness_of(G, dist, v) ==
    LET nodes == Range(G.nodes)
        n == Len(G.nodes)
        through == {p \in (nodes \ {v}) \X (nodes \ {v}) :
                       /\ p[1] # p[2]
                       /\ p[2] \in DOMAIN dist[p[1]]
                       /\ v \in DOMAIN dist[p[1]]
                       /\ dist[p[1]][v] + dist[v][p[2]] = dist[p[1]][p[2]]}
        total == SumFractions(
                     [p \in through |->
                         Fraction(path_count(G, dist[p[1]], v) * path_count(G, dist[v], p[2]),
                                  path_count(G, dist[p[1]], p[2]))],
                     through)
    IN  IF n <= 2 THEN total
        ELSE Fraction(total.num, total.den * (n - 1) * (n - 2))

\* The dict nx.betweenness_centrality returns, as a list in node order.
RECURSIVE betweenness_list(_, _, _)
betweenness_list(G, dist, p) ==
    IF p > Len(G.nodes) THEN <<>>
    ELSE <<betweenness_of(G, dist, G.nodes[p])>> \o betweenness_list(G, dist, p + 1)

betweenness_centrality(G) ==
    betweenness_list(G, all_shortest_paths(G, Range(G.nodes)), 1)

\* G.edges(data=True): node by node in insertion order, each node's edges in
\* the order they were added, an edge to an earlier node being skipped.
RECURSIVE edges_from(_, _)
edges_from(G, p) ==
    IF p > Len(G.nodes) THEN <<>>
    ELSE LET n == G.nodes[p]
             seen == {G.nodes[q] : q \in 1..(p - 1)}
             mine == SelectSeq(G.edges,
                               LAMBDA e : \/ e.u = n /\ e.v \notin seen
                                          \/ e.v = n /\ e.u \notin seen)
         IN  [i \in 1..Len(mine) |->
                 [source |-> n,
                  target |-> IF mine[i].u = n THEN mine[i].v ELSE mine[i].u,
                  score |-> mine[i].weight]]
             \o edges_from(G, p + 1)

\* greedy_modularity_communities (Clauset-Newman-Moore), unweighted, with
\* exact arithmetic.  The communities are a dict from a node to a set of
\* nodes, in insertion order.
RECURSIVE SumDegrees(_, _)
SumDegrees(G, members) ==
    IF members = {} THEN 0
    ELSE LET n == CHOOSE x \in members : TRUE
         IN  degree(G, n) + SumDegrees(G, members \ {n})

edges_between(G, X, Y) ==
    Cardinality({i \in DOMAIN G.edges :
                    \/ G.edges[i].u \in X /\ G.edges[i].v \in Y
                    \/ G.edges[i].u \in Y /\ G.edges[i].v \in X})

\* The gain dq of merging two communities, times 2 m^2 (m the number of
\* edges).
merge_gain(G, X, Y) ==
    2 * Len(G.edges) * edges_between(G, X, Y) - SumDegrees(G, X) * SumDegrees(G, Y)

\* Heap order of two candidate merges <<u, v>>: the larger gain first, equal
\* gains by the pair of node keys.
merge_before(G, communities, p, q) ==
    LET gp == merge_gain(G, communities[p[1]].v, communities[p[2]].v)
        gq == merge_gain(G, communities[q[1]].v, communities[q[2]].v)
        up == communities[p[1]].k
        vp == communities[p[2]].k
        uq == communities[q[1]].k
        vq == communities[q[2]].k
    IN  \/ gp > gq
        \/ gp = gq /\ StrLess(up, uq)
        \/ gp = gq /\ up = uq /\ StrLess(vp, vq)

\* The merge loop: the best merge of two communities joined by an edge is
\* taken while one exists and its gain is not negative; u is merged into v.
RECURSIVE greedy_merge(_, _)
greedy_merge(G, communities) ==
    LET pairs == {p \in (DOMAIN communities) \X (DOMAIN communities) :
                     /\ p[1] # p[2]
                     /\ edges_between(G, communities[p[1]].v, communities[p[2]].v) > 0}
    IN  IF pairs = {} THEN communities
        ELSE LET best == CHOOSE p \in pairs :
                             \A q \in pairs : q = p \/ merge_before(G, communities, p, q)
                 merged == [communities EXCEPT
                               ![best[2]] = [k |-> communities[best[2]].k,
                                             v |-> communities[best[1]].v
                                                   \cup communities[best[2]].v]]
             IN  IF merge_gain(G, communities[best[1]].v, communities[best[2]].v) < 0
                 THEN communities
                 ELSE greedy_merge(G, SelectSeq(merged,
                                                LAMBDA c : c.k # communities[best[1]].k))

\* sorted(communities, key=len, reverse=True): stable.
RECURSIVE sorted_by_len(_)
sorted_by_len(sets) ==
    IF sets = <<>> THEN <<>>
    ELSE LET rest == sorted_by_len(Tail(sets))
             before == SelectSeq(rest,
                                 LAMBDA y : Cardinality(y) > Cardinality(Head(sets)))
         IN  before \o <<Head(sets)>> \o SubSeq(rest, Len(before) + 1, Len(rest))

\* Variant of greedy_modularity_communities that leaves every node alone.
greedy_modularity_communities_singletons(G) ==
    [i \in DOMAIN G.nodes |-> {G.nodes[i]}]

greedy_modularity_communities(G) ==
    LET merged == greedy_merge(G, [i \in DOMAIN G.nodes |->
                                      [k |-> G.nodes[i], v |-> {G.nodes[i]}]])
    IN  sorted_by_len([i \in DOMAIN merged |-> merged[i].v])

\* The order in which a set of strings is iterated depends on the hash seed
\* of the process; two seeds are represented.
HashSeeds == {"ascending", "descending"}

RECURSIVE Iterate(_, _)
Iterate(S, seed) ==
    IF S = {} THEN <<>>
    ELSE LET first == CHOOSE x \in S :
                         \A y \in S : y = x \/ (IF seed = "ascending"
                                                THEN StrLess(x, y) ELSE StrLess(y, x))
         IN  <<first>> \o Iterate(S \ {first}, seed)

NoDetection == [raised |-> FALSE, communities |-> <<>>, seed |-> "ascending"]

\* What community detection does on a graph: it raises, or it returns the
\* communities, whose members the caller then iterates in hash order.
Detections(G) ==
    IF G.nodes = <<>> THEN {NoDetection}
    ELSE {[raised |-> FALSE, communities |-> greedy_modularity_communities(G),
           seed |-> seed] : seed \in HashSeeds}
         \cup {[raised |-> TRUE, communities |-> <<>>, seed |-> "ascending"]}

\* The loops that fill node_to_module: communities by enumerate, the nodes
\* of a community in iteration order.
RECURSIVE module_dict(_, _, _)
module_dict(detection, module_id, d) ==
    IF module_id >= Len(detection.communities) THEN d
    ELSE LET community == Iterate(detection.communities[module_id + 1], detection.seed)
             filled[i \in 0..Len(community)] ==
                 IF i = 0 THEN d ELSE DictSet(filled[i - 1], community[i], module_id)
         IN  module_dict(detection, module_id + 1, filled[Len(community)])

\* Variant of node_to_module that numbers the nodes in the order in which
\* the loops reach them.
node_to_module_by_position(detection, node) ==
    IF detection.raised THEN 0
    ELSE LET d == module_dict(detection, 0, <<>>)
         IN  IF DictHas(d, node) THEN (CHOOSE i \in DOMAIN d : d[i].k = node) - 1 ELSE 0

\* The try/except around community detection, and node_to_module.get(node,
\* 0): module ids by enumerate, or module 0 for every node and an empty list
\* of communities.
node_to_module(detection, node) ==
    IF detection.raised THEN 0
    ELSE IF DictHas(module_dict(detection, 0, <<>>), node)
    THEN DictGet(module_dict(detection, 0, <<>>), node)
    ELSE 0

communities_found(detection) ==
    IF detection.raised THEN <<>> ELSE detection.communities

get_gene_category(categoryRows, geneRows, gene_symbol) ==
    LET found == SelectSeq(geneRows, LAMBDA g : g.symbol = Upper(gene_symbol))
        refs == IF found = <<>> THEN <<>>
                ELSE SelectSeq(categoryRows, LAMBDA c : c.id = found[1].category_id)
    IN  IF found # <<>> /\ refs # <<>> THEN refs[1].name ELSE Unknown

\* sorted(..., key=degree, reverse=True): stable, equal keys keep their order.
RECURSIVE sorted_by_degree(_)
sorted_by_degree(hubs) ==
    IF hubs = <<>> THEN <<>>
    ELSE LET rest == sorted_by_degree(Tail(hubs))
             before == SelectSeq(rest, LAMBDA y : y.degree > Head(hubs).degree)
         IN  before \o <<Head(hubs)>> \o SubSeq(rest, Len(before) + 1, Len(rest))

\* Variant of sorted_by_betweenness that puts a node before the nodes of
\* the same key that were added before it.
RECURSIVE sorted_by_betweenness_unstable(_)
sorted_by_betweenness_unstable(bottlenecks) ==
    IF bottlenecks = <<>> THEN <<>>
    ELSE LET rest == sorted_by_betweenness_unstable(Tail(bottlenecks))
             before == SelectSeq(rest,
                                 LAMBDA y : y.betweenness >= Head(bottlenecks).betweenness)
         IN  before \o <<Head(bottlenecks)>> \o SubSeq(rest, Len(before) + 1, Len(rest))

\* sorted(..., key=betweenness, reverse=True): stable.
RECURSIVE sorted_by_betweenness(_)
sorted_by_betweenness(bottlenecks) ==
    IF bottlenecks = <<>> THEN <<>>
    ELSE LET rest == sorted_by_betweenness(Tail(bottlenecks))
             before == SelectSeq(rest,
                                 LAMBDA y : y.betweenness > Head(bottlenecks).betweenness)
         IN  before \o <<Head(bottlenecks)>> \o SubSeq(rest, Len(before) + 1, Len(rest))

TopCount == 5

\* The early return of analyze_network.
EmptyAnalysis ==
    [kind |-> "analysis", status_code |-> 200,
     nodes |-> <<>>, edges |-> <<>>,
     total_nodes |-> 0, total_edges |-> 0,
     top_hubs |-> <<>>, top_bottlenecks |-> <<>>,
     modules_detected |-> 0]

\* analyze_network after the early return.  Scores are in thousandths, so
\* round(score, 3) keeps them.
analyze_graph(interactions, genes_found, genes_not_found, categoryRows, geneRows, detection) ==
         LET G == build_graph(EmptyGraph, interactions)
             hubs == [i \in DOMAIN G.nodes |->
                         [gene |-> G.nodes[i], degree |-> degree(G, G.nodes[i]),
                          centrality |-> degree_centrality(G, G.nodes[i])]]
             ranked == sorted_by_degree(hubs)
             between == betweenness_centrality(G)
             bottlenecks == sorted_by_betweenness(
                                [i \in DOMAIN G.nodes |->
                                    [gene |-> G.nodes[i],
                                     betweenness |-> round_4(between[i])]])
         IN  [kind |-> "analysis", status_code |-> 200,
              nodes |-> [i \in DOMAIN G.nodes |->
                            [id |-> G.nodes[i], label |-> G.nodes[i],
                             degree |-> round_4(degree_centrality(G, G.nodes[i])),
                             betweenness |-> round_4(between[i]),
                             module |-> node_to_module(detection, G.nodes[i]),
                             node_degree |-> degree(G, G.nodes[i]),
                             category |-> get_gene_category(categoryRows, geneRows,
                                                            G.nodes[i])]],
              edges |-> edges_from(G, 1),
              total_nodes |-> Len(G.nodes),
              total_edges |-> Len(G.edges),
              top_hubs |-> SubSeq(ranked, 1, IF Len(ranked) < TopCount
                                             THEN Len(ranked) ELSE TopCount),
              top_bottlenecks |-> SubSeq(bottlenecks, 1,
                                         IF Len(bottlenecks) < TopCount
                                         THEN Len(bottlenecks) ELSE TopCount),
              modules_detected |-> Len(communities_found(detection)),
              genes_found |-> genes_found,
              genes_not_found |-> genes_not_found]

\* Variant of analyze_network without the early return, failing on the
\* empty graph.
analyze_network_unguarded(interactions, genes_found, genes_not_found, categoryRows, geneRows, detection) ==
    IF interactions = <<>>
    THEN [kind |-> "error", status_code |-> 500]
    ELSE analyze_graph(interactions, genes_found, genes_not_found, categoryRows,
                       geneRows, detection)

analyze_network(interactions, genes_found, genes_not_found, categoryRows, geneRows, detection) ==
    IF interactions = <<>>
    THEN EmptyAnalysis
    ELSE analyze_graph(interactions, genes_found, genes_not_found, categoryRows,
                       geneRows, detection)

\* What the STRING request and, on its records, community detection do: the
\* request fails, or it answers a list of records.
StringAnswers ==
    UNION {{[kind |-> "ok", interactions |-> l, detection |-> d] :
               d \in Detections(build_graph(EmptyGraph, l))} :
           l \in InteractionLists}
    \cup {[kind |-> "RequestException", interactions |-> <<>>,
           detection |-> NoDetection]}

ErrorResponse(status_code) == [kind |-> "error", status_code |-> status_code]

\* except ValueError -> 400; except Exception -> 500 (HTTPException is a
\* subclass of Exception).
analyze_except(exc) ==
    IF exc.type = "ValueError" THEN ErrorResponse(400) ELSE ErrorResponse(500)

\* except Exception -> 500.
confirm_except(exc) == ErrorResponse(500)

\* Phases 2 to 4 of a handler: fetch the interactions, analyse the network.
network_phase(gene_list, answer, categoryRows, geneRows) ==
    LET f == fetch_string_interactions(gene_list, answer)
    IN  IF f.exc # NoException
        THEN [exc |-> f.exc, result |-> ErrorResponse(f.exc.status_code),
              calls |-> <<Call("fetch_string_interactions", TRUE, f.exc, None)>>]
        ELSE [exc |-> NoException,
              result |-> analyze_network(f.interactions, f.genes_found,
                                         f.genes_not_found, categoryRows, geneRows,
                                         answer.detection),
              calls |-> <<Call("fetch_string_interactions", FALSE, NoException, None),
                          Call("analyze_network", FALSE, NoException, None)>>]

\* What /confirm-categories leaves behind: the tables after its two writes,
\* its calls, and the analysis or the error of the network phases n.
confirm_outcome(categoryRows, geneRows, written, n) ==
    [categories |-> categoryRows,
     genes |-> geneRows,
     calls |-> written \o n.calls,
     resp |-> IF n.exc # NoException THEN confirm_except(n.exc) ELSE n.result]

\* POST /confirm-categories, the whole handler (it never awaits).
confirm_new_categories(categoryRows, geneRows, request, answer) ==
    LET categories_to_create ==
            [i \in 1..Len(request.new_categories) |->
                [name |-> request.new_categories[i], color |-> DefaultColor]]
        c == bulk_create_categories(categoryRows, categories_to_create)
        all_categories ==
            get_categories_by_names(c.rows,
                [i \in 1..Len(request.pending_genes) |-> request.pending_genes[i].category])
        approved ==
            SelectSeq(request.pending_genes,
                      LAMBDA gene : gene.category \in DictKeys(all_categories))
        genes_to_insert ==
            [i \in 1..Len(approved) |->
                [symbol |-> approved[i].symbol,
                 category_id |-> DictGet(all_categories, approved[i].category).id,
                 description |-> approved[i].description]]
        g == bulk_create_genes(geneRows, genes_to_insert)
        saved == IF genes_to_insert # <<>> THEN g.rows ELSE geneRows
    IN  confirm_outcome(
            c.rows, saved,
            <<Call("bulk_create_categories", c.raised, NoException, c.ret)>>
            \o (IF genes_to_insert # <<>>
                THEN <<Call("bulk_create_genes", g.raised, NoException, g.ret)>>
                ELSE <<>>),
            network_phase(request.original_gene_list, answer, c.rows, saved))

\* ------------------------------------------------------------ state machine
NoRequest ==
    [endpoint |-> "none", original_gene_list |-> <<>>,
     new_categories |-> <<>>, pending_genes |-> <<>>]

AnalyzeRequest(gene_list) ==
    [endpoint |-> "/analyze", original_gene_list |-> gene_list,
     new_categories |-> <<>>, pending_genes |-> <<>>]

\* The body of /confirm-categories.
Payload(gene_list, new_categories, pending) ==
    [original_gene_list |-> gene_list, new_categories |-> new_categories,
     pending_genes |-> pending]

ConfirmRequest(payload) ==
    [endpoint |-> "/confirm-categories",
     original_gene_list |-> payload.original_gene_list,
     new_categories |-> payload.new_categories,
     pending_genes |-> payload.pending_genes]

NoResponse == [kind |-> "none", status_code |-> 0]

ReviewResponse(new_categories, pending) ==
    [kind |-> "review_required", status_code |-> 200,
     new_categories |-> new_categories, pending_genes |-> pending]

\* Approval bodies a caller may write by hand.
PendingEntries ==
    [symbol : PayloadSymbols, category : PayloadCategories,
     description : PayloadDescriptions]

ArbitraryPayloads ==
    {Payload([i \in 1..Len(pg) |-> pg[i].symbol], nc, pg) :
        nc \in SeqsUpTo(PayloadCategories, MaxPayload),
        pg \in SeqsUpTo(PendingEntries, MaxPayload)}

\* watch follows one earlier /analyze request: "review" while its
\* review_required response awaits approval, "committed" once the request has
\* reached Committed.  Which request is followed is arbitrary.
NoWatch ==
    [state |-> "none", original_gene_list |-> <<>>,
     new_categories |-> <<>>, pending_genes |-> <<>>]

Watch(state, payload) ==
    [state |-> state, original_gene_list |-> payload.original_gene_list,
     new_categories |-> payload.new_categories,
     pending_genes |-> payload.pending_genes]

WatchedPayload ==
    Payload(watch.original_gene_list, watch.new_categories, watch.pending_genes)

\* Rows present after startup: none (create_all), or those of the seeding
\* script (a category with its colour and a gene of that category).
SeedColor == <<"#", "f", "f", "a", "a", "0", "0">>
SeedCategories == <<Category(1, <<"K">>, SeedColor)>>
SeedGenes == <<Gene(1, <<"B">>, 1, <<"s">>)>>

NoNet ==
    [interactions |-> <<>>, detection |-> NoDetection, result |-> NoResponse,
     again |-> NoDetection, rerun |-> NoResponse]

NoLookup == [symbols |-> <<>>, names |-> <<>>, genes |-> <<>>, categories |-> <<>>]

Init ==
    /\ \/ categories = <<>> /\ genes = <<>>
       \/ categories = SeedCategories /\ genes = SeedGenes
    /\ apiKey \in BOOLEAN
    /\ pc = [r \in Requests |-> "idle"]
    /\ req = [r \in Requests |-> NoRequest]
    /\ missing = [r \in Requests |-> <<>>]
    /\ tasks = [r \in Requests |-> <<>>]
    /\ trace = [r \in Requests |-> <<>>]
    /\ resp = [r \in Requests |-> NoResponse]
    /\ nreq = 0
    /\ watch = NoWatch
    /\ net = NoNet
    /\ lookup = NoLookup

\* A response is sent (Respond) before another handler is run to its end,
\* and the second slot is taken only while the first is suspended.
NoneDone == \A q \in Requests : pc[q] # "done"

Accept(r, max) ==
    /\ pc[r] = "idle"
    /\ nreq < max
    /\ NoneDone
    /\ r # 1 => pc[1] = "fetching"

\* The network phases n of /analyze end the handler of slot r: its calls
\* follow the calls made before, its analysis or its error is the response.
AnalyzeReturns(r, made, n) ==
    /\ trace' = [trace EXCEPT ![r] = made \o n.calls]
    /\ resp' = [resp EXCEPT ![r] =
                  IF n.exc # NoException THEN analyze_except(n.exc) ELSE n.result]

\* /confirm-categories ends in slot r with the outcome h.
ConfirmReturns(r, h) ==
    /\ categories' = h.categories
    /\ genes' = h.genes
    /\ trace' = [trace EXCEPT ![r] = h.calls]
    /\ resp' = [resp EXCEPT ![r] = h.resp]

\* /analyze, every symbol cached: enrich_missing_genes returns None without
\* awaiting and the handler runs to its response.
AnalyzeResolved(r, max) ==
    /\ Accept(r, max)
    /\ \E gene_list \in GeneLists, answer \in StringAnswers :
        /\ missing_symbols(genes, gene_list) = <<>>
        /\ req' = [req EXCEPT ![r] = AnalyzeRequest(gene_list)]
        /\ AnalyzeReturns(r, <<>>, network_phase(gene_list, answer, categories, genes))
    /\ pc' = [pc EXCEPT ![r] = "done"]
    /\ nreq' = nreq + 1
    /\ UNCHANGED <<categories, genes, apiKey, missing, tasks, watch, net, lookup>>

\* /analyze, some symbol missing: the classifier tasks are created and the
\* handler suspends at the await.
AnalyzeFetchPending(r, max) ==
    /\ Accept(r, max)
    /\ \E gene_list \in GeneLists :
        /\ missing_symbols(genes, gene_list) # <<>>
        /\ req' = [req EXCEPT ![r] = AnalyzeRequest(gene_list)]
        /\ missing' = [missing EXCEPT ![r] = missing_symbols(genes, gene_list)]
    /\ pc' = [pc EXCEPT ![r] = "fetching"]
    /\ nreq' = nreq + 1
    /\ UNCHANGED <<categories, genes, apiKey, tasks, trace, resp, watch, net, lookup>>

\* One task of asyncio.gather runs fetch_gene_info for its symbol.
ClassifierTask(r) ==
    /\ pc[r] = "fetching"
    /\ Len(tasks[r]) < Len(missing[r])
    /\ \E answer \in Answers :
        LET gene_symbol == missing[r][Len(tasks[r]) + 1]
        IN  tasks' = [tasks EXCEPT ![r] =
                        Append(@, [symbol |-> gene_symbol,
                                   failed |-> CallFailed(apiKey, answer),
                                   info |-> fetch_gene_info(gene_symbol, apiKey, answer)])]
    /\ UNCHANGED <<categories, genes, apiKey, pc, req, missing, trace, resp,
                   nreq, watch, net, lookup>>

\* Variant of Gathered that is satisfied by the first completed task.
Gathered_first(r) == pc[r] = "fetching" /\ Len(tasks[r]) >= 1

Gathered(r) == pc[r] = "fetching" /\ Len(tasks[r]) = Len(missing[r])

Resume(r) == Gathered(r) /\ NoneDone

\* /analyze resumes and a classified category is new: review_required.
AnalyzeReview(r) ==
    /\ Resume(r)
    /\ LET gene_info_map == batch_fetch_genes(tasks[r])
       IN  /\ new_category_set(categories, gene_info_map) # {}
           /\ \E order \in Orders(new_category_set(categories, gene_info_map)) :
                LET e == enrich_evaluate(categories, genes, gene_info_map, order)
                IN  /\ genes' = e.genes
                    /\ trace' = [trace EXCEPT ![r] = e.calls]
                    /\ resp' = [resp EXCEPT ![r] =
                                  ReviewResponse(e.new_categories, e.pending_genes)]
                    /\ watch' \in
                         {watch,
                          Watch("review", Payload(req[r].original_gene_list,
                                                  e.new_categories, e.pending_genes))}
    /\ pc' = [pc EXCEPT ![r] = "done"]
    /\ UNCHANGED <<categories, apiKey, req, missing, tasks, nreq, net, lookup>>

\* /analyze resumes and every classified category exists: the genes are
\* saved and the handler goes on to the network phases.
AnalyzeAutoSave(r) ==
    /\ Resume(r)
    /\ LET gene_info_map == batch_fetch_genes(tasks[r])
       IN  /\ new_category_set(categories, gene_info_map) = {}
           /\ \E answer \in StringAnswers :
                LET e == enrich_evaluate(categories, genes, gene_info_map, <<>>)
                IN  /\ genes' = e.genes
                    /\ AnalyzeReturns(r, e.calls,
                                      network_phase(req[r].original_gene_list, answer,
                                                    categories, e.genes))
    /\ watch' \in {watch,
                   Watch("committed", Payload(req[r].original_gene_list, <<>>, <<>>))}
    /\ pc' = [pc EXCEPT ![r] = "done"]
    /\ UNCHANGED <<categories, apiKey, req, missing, tasks, nreq, net, lookup>>

Confirm(r, max, payload) ==
    /\ Accept(r, max)
    /\ \E answer \in StringAnswers :
        ConfirmReturns(r, confirm_new_categories(categories, genes, payload, answer))
    /\ req' = [req EXCEPT ![r] = ConfirmRequest(payload)]
    /\ watch' = IF watch.state = "review" /\ payload = WatchedPayload
                THEN Watch("committed", payload)
                ELSE watch
    /\ pc' = [pc EXCEPT ![r] = "done"]
    /\ nreq' = nreq + 1
    /\ UNCHANGED <<apiKey, missing, tasks, net, lookup>>

\* /confirm-categories with exactly what a review_required response returned.
ConfirmReturned(r, max) == watch.state = "review" /\ Confirm(r, max, WatchedPayload)

\* /confirm-categories with a body the caller wrote.
ConfirmArbitrary(r, max) == \E payload \in ArbitraryPayloads : Confirm(r, max, payload)

\* The response is sent and the slot takes the next request.
Respond(r) ==
    /\ pc[r] = "done"
    /\ pc' = [pc EXCEPT ![r] = "idle"]
    /\ req' = [req EXCEPT ![r] = NoRequest]
    /\ missing' = [missing EXCEPT ![r] = <<>>]
    /\ tasks' = [tasks EXCEPT ![r] = <<>>]
    /\ trace' = [trace EXCEPT ![r] = <<>>]
    /\ resp' = [resp EXCEPT ![r] = NoResponse]
    /\ UNCHANGED <<categories, genes, apiKey, nreq, watch, net, lookup>>

Next ==
    \E r \in Requests :
        \/ AnalyzeResolved(r, MaxRequests)
        \/ AnalyzeFetchPending(r, MaxRequests)
        \/ ClassifierTask(r)
        \/ AnalyzeReview(r)
        \/ AnalyzeAutoSave(r)
        \/ ConfirmReturned(r, MaxRequests)
        \/ ConfirmArbitrary(r, MaxRequests)
        \/ Respond(r)

Spec == Init /\ [][Next]_vars

\* Requests run one after another: only the first slot is used.
SeqNext ==
    \/ AnalyzeResolved(1, MaxSeqRequests)
    \/ AnalyzeFetchPending(1, MaxSeqRequests)
    \/ ClassifierTask(1)
    \/ AnalyzeReview(1)
    \/ AnalyzeAutoSave(1)
    \/ ConfirmReturned(1, MaxSeqRequests)
    \/ ConfirmArbitrary(1, MaxSeqRequests)
    \/ Respond(1)

SeqSpec == Init /\ [][SeqNext]_vars

\* analyze_network run on its own on a list of records, against the rows
\* present after startup, and run again on the same arguments in a process
\* with another hash seed.
AnalyzeNetwork ==
    /\ net = NoNet
    /\ \E interactions \in NetInteractionLists :
          \E detection, again \in Detections(build_graph(EmptyGraph, interactions)) :
             /\ again.raised = detection.raised
             /\ net' = [interactions |-> interactions,
                        detection |-> detection,
                        result |-> analyze_network(interactions, <<>>, <<>>,
                                                   categories, genes, detection),
                        again |-> again,
                        rerun |-> analyze_network(interactions, <<>>, <<>>,
                                                  categories, genes, again)]
    /\ UNCHANGED <<categories, genes, apiKey, pc, req, missing, tasks, trace, resp,
                   nreq, watch, lookup>>

NetNext == AnalyzeNetwork

\* /confirm-categories called again with the body of the call that has just
\* returned, before any other handler runs to its end.
Replay(r) ==
    /\ pc[r] = "done"
    /\ req[r].endpoint = "/confirm-categories"
    /\ \E answer \in StringAnswers :
        ConfirmReturns(r, confirm_new_categories(categories, genes, req[r], answer))
    /\ watch' = Watch("replayed", req[r])
    /\ UNCHANGED <<apiKey, pc, req, missing, tasks, nreq, net, lookup>>

\* The handlers of Spec, and Replay.
ReplayNext ==
    \E r \in Requests :
        \/ AnalyzeResolved(r, MaxRequests)
        \/ AnalyzeFetchPending(r, MaxRequests)
        \/ ClassifierTask(r)
        \/ AnalyzeReview(r)
        \/ AnalyzeAutoSave(r)
        \/ ConfirmReturned(r, MaxRequests)
        \/ ConfirmArbitrary(r, MaxRequests)
        \/ Replay(r)
        \/ Respond(r)

ReplaySpec == Init /\ [][ReplayNext]_vars

\* /analyze requests alone, started on the tables left by a
\* /confirm-categories that created the category K and no gene: every symbol
\* is missing and the category of a classified gene can exist.
ConfirmedCategories == <<Category(1, <<"K">>, DefaultColor)>>

RaceInit ==
    /\ categories = ConfirmedCategories
    /\ genes = <<>>
    /\ apiKey \in BOOLEAN
    /\ pc = [r \in Requests |-> "idle"]
    /\ req = [r \in Requests |-> NoRequest]
    /\ missing = [r \in Requests |-> <<>>]
    /\ tasks = [r \in Requests |-> <<>>]
    /\ trace = [r \in Requests |-> <<>>]
    /\ resp = [r \in Requests |-> NoResponse]
    /\ nreq = 0
    /\ watch = NoWatch
    /\ net = NoNet
    /\ lookup = NoLookup

RaceNext ==
    \E r \in Requests :
        \/ AnalyzeResolved(r, MaxRequests)
        \/ AnalyzeFetchPending(r, MaxRequests)
        \/ ClassifierTask(r)
        \/ AnalyzeReview(r)
        \/ AnalyzeAutoSave(r)
        \/ Respond(r)

RaceSpec == RaceInit /\ [][RaceNext]_vars

\* get_genes_by_symbols and get_categories_by_names run on their own against
\* the rows present after startup.
Lookup ==
    /\ lookup = NoLookup
    /\ \E symbols \in SeqsUpTo(LookupSymbols, MaxLookup),
          names \in SeqsUpTo(LookupNames, MaxLookup) :
          /\ symbols # <<>> \/ names # <<>>
          /\ lookup' = [symbols |-> symbols, names |-> names,
                        genes |-> get_genes_by_symbols(genes, symbols),
                        categories |-> get_categories_by_names(categories, names)]
    /\ UNCHANGED <<categories, genes, apiKey, pc, req, missing, tasks, trace, resp,
                   nreq, watch, net>>

LookupNext == Lookup

LookupSpec == Init /\ [][LookupNext]_vars

NetSpec == Init /\ [][NetNext]_vars

\* ------------------------------------------------------------------ claims
BulkWrites == {"bulk_create_genes", "bulk_create_categories"}

\* C1: when every uppercased symbol of the gene list of an /analyze request
\* has a row in genes, the request makes no classifier call (no missing
\* symbol, no task), leaves genes and categories unchanged, does not return
\* review_required, and its first call is the interaction fetch.
C1_CachedListResolved ==
    [][\A r \in Requests :
          (/\ pc[r] = "idle"
           /\ pc'[r] # "idle"
           /\ req'[r].endpoint = "/analyze"
           /\ \A i \in DOMAIN req'[r].original_gene_list :
                 \E j \in DOMAIN genes :
                    genes[j].symbol = Upper(req'[r].original_gene_list[i]))
          => /\ pc'[r] = "done"
             /\ missing'[r] = <<>>
             /\ tasks'[r] = <<>>
             /\ genes' = genes
             /\ categories' = categories
             /\ resp'[r].kind # "review_required"
             /\ trace'[r] # <<>>
             /\ trace'[r][1].op = "fetch_string_interactions"]_vars

\* An /analyze request of a non-empty list typed in lower case whose symbols
\* are all cached has run to its response through the interaction fetch.
C1_Witness ==
    \E r \in Requests :
        /\ pc[r] = "done"
        /\ req[r].endpoint = "/analyze"
        /\ req[r].original_gene_list # <<>>
        /\ \E i \in DOMAIN req[r].original_gene_list :
              req[r].original_gene_list[i] # Upper(req[r].original_gene_list[i])
        /\ \A i \in DOMAIN req[r].original_gene_list :
              \E j \in DOMAIN genes :
                 genes[j].symbol = Upper(req[r].original_gene_list[i])
        /\ tasks[r] = <<>>
        /\ trace[r] # <<>>
        /\ trace[r][1].op = "fetch_string_interactions"

\* C2: when /analyze resumes after the classifier batch and some category of
\* the resulting map has no row in categories, the response is
\* review_required, new_categories lists exactly the classified categories
\* without a row (each once), pending_genes has exactly one entry per
\* classified symbol carrying its category and description, and genes and
\* categories are unchanged.
C2_ReviewRequired ==
    [][\A r \in Requests :
          LET m == batch_fetch_genes(tasks[r])
              classified == {m[i].v.category : i \in DOMAIN m}
              cached == {categories[j].name : j \in DOMAIN categories}
              symbols == {missing[r][i] : i \in DOMAIN missing[r]}
              nc == resp'[r].new_categories
              pg == resp'[r].pending_genes
          IN  (/\ pc[r] = "fetching"
               /\ pc'[r] = "done"
               /\ classified \ cached # {})
              => /\ resp'[r].kind = "review_required"
                 /\ {nc[i] : i \in DOMAIN nc} = classified \ cached
                 /\ Len(nc) = Cardinality(classified \ cached)
                 /\ Len(pg) = Cardinality(symbols)
                 /\ \A sym \in symbols :
                       \E i \in DOMAIN pg :
                          /\ pg[i].symbol = sym
                          /\ pg[i].category = DictGet(m, sym).category
                          /\ pg[i].description = DictGet(m, sym).description
                 /\ genes' = genes
                 /\ categories' = categories]_vars

\* A review_required response holds two pending genes, one of them of a
\* category that already has a row, and neither gene has a row.
C2_Witness ==
    \E r \in Requests :
        /\ pc[r] = "done"
        /\ resp[r].kind = "review_required"
        /\ Len(resp[r].pending_genes) = 2
        /\ \E i \in DOMAIN resp[r].pending_genes :
              \E j \in DOMAIN categories :
                 categories[j].name = resp[r].pending_genes[i].category
        /\ \A i \in DOMAIN resp[r].pending_genes :
              \A j \in DOMAIN genes :
                 genes[j].symbol # resp[r].pending_genes[i].symbol

\* C3: with requests run one after another, once the followed request is
\* Committed (auto-save, or review_required approved with exactly what it
\* returned), an /analyze request of the same gene list makes no classifier
\* call, writes nothing and does not return review_required.
C3_ResubmitResolved ==
    [][\A r \in Requests :
          (/\ watch.state = "committed"
           /\ pc[r] = "idle"
           /\ pc'[r] # "idle"
           /\ req'[r].endpoint = "/analyze"
           /\ req'[r].original_gene_list = watch.original_gene_list)
          => /\ pc'[r] = "done"
             /\ missing'[r] = <<>>
             /\ tasks'[r] = <<>>
             /\ genes' = genes
             /\ categories' = categories
             /\ resp'[r].kind # "review_required"]_vars

\* C4: after /confirm-categories either every approved category and every
\* pending gene has a row, or genes and categories are as before the call.
C4_ConfirmAtomic ==
    [][\A r \in Requests :
          (/\ pc[r] = "idle"
           /\ pc'[r] = "done"
           /\ req'[r].endpoint = "/confirm-categories")
          => \/ /\ \A i \in DOMAIN req'[r].new_categories :
                      \E j \in DOMAIN categories' :
                         categories'[j].name = req'[r].new_categories[i]
                /\ \A i \in DOMAIN req'[r].pending_genes :
                      \E j \in DOMAIN genes' :
                         genes'[j].symbol = Upper(req'[r].pending_genes[i].symbol)
             \/ /\ categories' = categories
                /\ genes' = genes]_vars

\* C5: a handler step in which bulk_create_genes failed leaves genes as it
\* was before the step, and one in which bulk_create_categories failed leaves
\* categories as it was.
C5_AllOrNothing ==
    [][\A r \in Requests :
          \A i \in DOMAIN trace'[r] :
             (trace'[r] # trace[r] /\ trace'[r][i].failed)
             => /\ trace'[r][i].op = "bulk_create_genes" => genes' = genes
                /\ trace'[r][i].op = "bulk_create_categories"
                      => categories' = categories]_vars

\* An approval whose two pending genes repeat one symbol without a row has
\* failed in bulk_create_genes after its first row was flushed, and the
\* symbol still has no row.
C5_Witness ==
    \E r \in Requests :
        /\ pc[r] = "done"
        /\ req[r].endpoint = "/confirm-categories"
        /\ Len(req[r].pending_genes) = 2
        /\ \E i \in DOMAIN trace[r] :
              trace[r][i].op = "bulk_create_genes" /\ trace[r][i].failed
        /\ \A j \in DOMAIN genes :
              genes[j].symbol # Upper(req[r].pending_genes[1].symbol)

\* C6: every bulk write returns an integer, and the integer 0 when it failed.
C6_RowCount ==
    \A r \in Requests :
        \A i \in DOMAIN trace[r] :
            trace[r][i].op \in BulkWrites
            => /\ trace[r][i].ret.type = "int"
               /\ trace[r][i].failed => trace[r][i].ret.val = 0

\* C7: a request in which a bulk write failed answers with a failure.
C7_WriteFailureSurfaced ==
    \A r \in Requests :
        (/\ pc[r] = "done"
         /\ \E i \in DOMAIN trace[r] :
               trace[r][i].op \in BulkWrites /\ trace[r][i].failed)
        => resp[r].kind = "error"

\* C8: a request whose interaction fetch raised the 503 HTTPException
\* answers with status 503.
C8_ServiceUnavailable ==
    \A r \in Requests :
        (/\ pc[r] = "done"
         /\ \E i \in DOMAIN trace[r] :
               /\ trace[r][i].op = "fetch_string_interactions"
               /\ trace[r][i].exc = HTTPException(503))
        => resp[r].kind = "error" /\ resp[r].status_code = 503

\* C9: once every task of a batch has ended, the map batch_fetch_genes
\* returns has an entry for every symbol of the batch; the entry of a symbol
\* whose call failed has category Unknown and the entry of a symbol whose
\* call succeeded is what that call returned.
C9_BatchMap ==
    \A r \in Requests :
        (pc[r] = "fetching" /\ Len(tasks[r]) = Len(missing[r]))
        => LET m == batch_fetch_genes(tasks[r])
           IN  \A i \in DOMAIN tasks[r] :
                  /\ DictHas(m, tasks[r][i].symbol)
                  /\ tasks[r][i].failed
                        => DictGet(m, tasks[r][i].symbol).category = Unknown
                  /\ ~tasks[r][i].failed
                        => DictGet(m, tasks[r][i].symbol) = tasks[r][i].info

\* C10 as stated: a failed classifier call for symbol S returns the record
\* whose description is S followed by " (auto-enrichment pending)" and whose
\* category is Unknown.
C10_BareDescription ==
    \A r \in Requests :
        \A i \in DOMAIN tasks[r] :
            tasks[r][i].failed
            => tasks[r][i].info =
                  [description |-> tasks[r][i].symbol \o PendingSuffix,
                   category |-> Unknown]

\* C10 amended: a failed classifier call for symbol S returns the record
\* whose description is "Gene ", then S, then " (auto-enrichment pending)",
\* and whose category is Unknown.
C10_DefaultRecord ==
    \A r \in Requests :
        \A i \in DOMAIN tasks[r] :
            tasks[r][i].failed
            => tasks[r][i].info =
                  [description |->
                       <<"G", "e", "n", "e", " ">> \o tasks[r][i].symbol
                       \o PendingSuffix,
                   category |-> <<"U", "n", "k", "n", "o", "w", "n">>]

\* A classifier call made with an API key has failed.
C10_Witness ==
    \E r \in Requests :
        \E i \in DOMAIN tasks[r] : apiKey /\ tasks[r][i].failed

\* A handler step of slot r for the given endpoint that has run to its
\* response.
HandlerStep(r, endpoint) ==
    /\ pc[r] # "done"
    /\ pc'[r] = "done"
    /\ req'[r].endpoint = endpoint

IsPrefix(rows, later) ==
    Len(rows) <= Len(later) /\ SubSeq(later, 1, Len(rows)) = rows

\* C11: the category table is append-only and grows only in the approval
\* step: every step keeps the existing category rows as they are, in place,
\* and a step that changes the table is a /confirm-categories handler step;
\* no /analyze step changes it.
C11_CategoriesAppendOnly ==
    [][/\ IsPrefix(categories, categories')
       /\ categories' # categories
             => \E r \in Requests : HandlerStep(r, "/confirm-categories")
       /\ \A r \in Requests :
             (req[r].endpoint = "/analyze" /\ pc[r] = "fetching" /\ pc'[r] = "done")
             => categories' = categories]_vars

\* An approval has added a category row behind the row present since
\* startup.
C11_Witness ==
    \E r \in Requests :
        /\ pc[r] = "done"
        /\ req[r].endpoint = "/confirm-categories"
        /\ trace[r][1].op = "bulk_create_categories"
        /\ ~trace[r][1].failed
        /\ Len(categories) > Len(SeedCategories)
        /\ IsPrefix(SeedCategories, categories)

\* C12: a committed gene is immutable: every step keeps every existing gene
\* row in place with its symbol, category_id and description, whatever an
\* approval payload says about a symbol that already has a row.
C12_GeneImmutable ==
    [][\A j \in DOMAIN genes :
          /\ j \in DOMAIN genes'
          /\ genes'[j].symbol = genes[j].symbol
          /\ genes'[j].category_id = genes[j].category_id
          /\ genes'[j].description = genes[j].description]_vars

\* An approval named a symbol that has a row with another description, its
\* category was approved and the gene insert was attempted.
C12_Witness ==
    \E r \in Requests :
        /\ pc[r] = "done"
        /\ req[r].endpoint = "/confirm-categories"
        /\ \E i \in DOMAIN trace[r] : trace[r][i].op = "bulk_create_genes"
        /\ \E i \in DOMAIN req[r].pending_genes, j \in DOMAIN genes :
              /\ genes[j].symbol = Upper(req[r].pending_genes[i].symbol)
              /\ genes[j].description # req[r].pending_genes[i].description
              /\ \E k \in DOMAIN categories :
                    categories[k].name = req[r].pending_genes[i].category

\* C13: in every reachable state, whatever the interleaving of the requests,
\* the category_id of every gene row is the id of a row of the category
\* table.
C13_CategoryExists ==
    \A j \in DOMAIN genes :
        \E k \in DOMAIN categories : categories[k].id = genes[j].category_id

\* While an /analyze request waits for the classifier, an approval has
\* created a category and a gene of that category.
C13_Witness ==
    \E r \in Requests :
        /\ pc[r] = "done"
        /\ req[r].endpoint = "/confirm-categories"
        /\ \E q \in Requests : q # r /\ pc[q] = "fetching"
        /\ \A i \in DOMAIN trace[r] : ~trace[r][i].failed
        /\ \E i \in DOMAIN req[r].pending_genes, j \in DOMAIN genes,
              k \in DOMAIN categories :
              /\ genes[j].symbol = Upper(req[r].pending_genes[i].symbol)
              /\ genes[j].category_id = categories[k].id
              /\ categories[k].name = req[r].pending_genes[i].category
              /\ categories[k].name \in Range(req[r].new_categories)

\* A gene list without a valid symbol: empty, or blank entries only.
NoValidSymbol(gene_list) ==
    \A i \in DOMAIN gene_list : Strip(gene_list[i]) = <<>>

\* C14: an /analyze request whose gene list has no valid symbol makes no
\* classifier call and no bulk write, is never answered review_required,
\* and is answered with status 400.
C14_InputError ==
    \A r \in Requests :
        (req[r].endpoint = "/analyze" /\ NoValidSymbol(req[r].original_gene_list))
        => /\ missing[r] = <<>>
           /\ tasks[r] = <<>>
           /\ \A i \in DOMAIN trace[r] : trace[r][i].op \notin BulkWrites
           /\ pc[r] = "done"
                 => resp[r].kind = "error" /\ resp[r].status_code = 400

\* C15: review_required ends the request: the step that determines it makes
\* no interaction fetch, no network analysis and no write (no call at all
\* after the classifier, both tables unchanged), the request makes no call
\* afterwards, and the gene table changes only in the handler step of a
\* request a caller sent: a /confirm-categories request, or an /analyze
\* request that is not answered review_required.
C15_ReviewTerminal ==
    [][/\ \A r \in Requests :
             (pc'[r] = "done" /\ resp'[r].kind = "review_required")
             => /\ trace'[r] = <<>>
                /\ genes' = genes
                /\ categories' = categories
       /\ genes' # genes
             => \E r \in Requests :
                   \/ HandlerStep(r, "/confirm-categories")
                   \/ /\ HandlerStep(r, "/analyze")
                      /\ resp'[r].kind # "review_required"]_vars

\* An /analyze request was answered review_required although one of its
\* pending genes is of a category that has a row; none of its pending genes
\* has a gene row.
C15_Witness ==
    \E r \in Requests :
        /\ pc[r] = "done"
        /\ resp[r].kind = "review_required"
        /\ trace[r] = <<>>
        /\ \E i \in DOMAIN resp[r].pending_genes, k \in DOMAIN categories :
              categories[k].name = resp[r].pending_genes[i].category
        /\ \A i \in DOMAIN resp[r].pending_genes, j \in DOMAIN genes :
              genes[j].symbol # resp[r].pending_genes[i].symbol

\* C16: for an empty interaction list analyze_network returns, without
\* raising and without community detection, a result with no elements,
\* total_nodes 0, total_edges 0, modules_detected 0 and empty top_hubs and
\* top_bottlenecks.
C16_EmptyResult ==
    (net.result # NoResponse /\ net.interactions = <<>>)
    => /\ net.result.kind = "analysis"
       /\ net.detection = NoDetection
       /\ net.result.nodes = <<>>
       /\ net.result.edges = <<>>
       /\ net.result.total_nodes = 0
       /\ net.result.total_edges = 0
       /\ net.result.modules_detected = 0
       /\ net.result.top_hubs = <<>>
       /\ net.result.top_bottlenecks = <<>>

\* analyze_network has returned for the empty list.
C16_Witness ==
    /\ net.result # NoResponse
    /\ net.interactions = <<>>
    /\ net.result = EmptyAnalysis

\* The labels of a list of records, trimmed and uppercased.
NormalizedLabels(interactions) ==
    {Upper(Strip(interactions[i].preferredName_A)) : i \in DOMAIN interactions}
    \cup {Upper(Strip(interactions[i].preferredName_B)) : i \in DOMAIN interactions}

\* C17: the ids of the node elements analyze_network returns are the
\* distinct trimmed and uppercased labels of the records, each once: labels
\* that differ only in case or surrounding whitespace give one node.
C17_NormalizedNodes ==
    (net.result # NoResponse /\ net.interactions # <<>>)
    => /\ {net.result.nodes[i].id : i \in DOMAIN net.result.nodes}
             = NormalizedLabels(net.interactions)
       /\ Len(net.result.nodes) = Cardinality(NormalizedLabels(net.interactions))
       /\ net.result.total_nodes = Cardinality(NormalizedLabels(net.interactions))

\* C18: for a non-empty list of records, self-loop records included, the
\* degree centrality reported for every node (in ten-thousandths) lies
\* between 0 and 1, the node's degree count is at most |V| - 1, and the
\* centrality is 0 when the graph has at most one node.
C18_CentralityRange ==
    (net.result # NoResponse /\ net.interactions # <<>>)
    => \A i \in DOMAIN net.result.nodes :
          /\ net.result.nodes[i].degree >= 0
          /\ net.result.nodes[i].degree <= 10000
          /\ net.result.nodes[i].node_degree <= net.result.total_nodes - 1
          /\ net.result.total_nodes <= 1 => net.result.nodes[i].degree = 0

\* C19: in every analysis result the module ids of the node elements lie in
\* 0..modules_detected-1 and every id of that range is carried by a node,
\* whether community detection returned or fell back.
C19_ModulePartition ==
    (net.result # NoResponse /\ net.interactions # <<>>)
    => /\ \A i \in DOMAIN net.result.nodes :
             net.result.nodes[i].module \in 0..(net.result.modules_detected - 1)
       /\ \A m \in 0..(net.result.modules_detected - 1) :
             \E i \in DOMAIN net.result.nodes : net.result.nodes[i].module = m

\* C20: when community detection raises, analyze_network still returns a
\* result, in which the module ids of the nodes are pairwise distinct and
\* modules_detected is the number of nodes.
C20_SingletonFallback ==
    (net.result # NoResponse /\ net.interactions # <<>> /\ net.detection.raised)
    => /\ net.result.kind = "analysis"
       /\ \A i, j \in DOMAIN net.result.nodes :
             i # j => net.result.nodes[i].module # net.result.nodes[j].module
       /\ net.result.modules_detected = net.result.total_nodes

\* The interaction list forms the two triangles.
IsTwoTriangles(interactions) ==
    {{interactions[i].preferredName_A, interactions[i].preferredName_B} :
        i \in DOMAIN interactions}
    = {{e[1], e[2]} : e \in TriangleEdges}

ModuleOf(result, label) ==
    result.nodes[CHOOSE i \in DOMAIN result.nodes : result.nodes[i].id = label].module

\* C21: for two triangles without an edge between them, community detection
\* (when it returns) gives modules_detected = 2, one module id for the three
\* nodes of each triangle, and different ids for the two triangles.
C21_TwoTriangles ==
    (/\ net.result # NoResponse
     /\ IsTwoTriangles(net.interactions)
     /\ ~net.detection.raised)
    => /\ net.result.modules_detected = 2
       /\ net.result.total_nodes = 6
       /\ \A e \in TriangleEdges :
             ModuleOf(net.result, e[1]) = ModuleOf(net.result, e[2])
       /\ ModuleOf(net.result, <<"A">>) # ModuleOf(net.result, <<"D">>)

\* The two triangles were analysed, their records given in an order that
\* starts in one triangle and goes on in the other.
C21_Witness ==
    /\ net.result # NoResponse
    /\ IsTwoTriangles(net.interactions)
    /\ ~net.detection.raised
    /\ net.interactions[1].preferredName_A \in {<<"D">>, <<"E">>, <<"F">>}
    /\ net.interactions[2].preferredName_A \in {<<"A">>, <<"B">>, <<"C">>}
    /\ net.result.modules_detected = 2

SameName(x, y) == Upper(x) = Upper(y)

\* C23: the result of get_genes_by_symbols holds, for every requested
\* symbol, the gene row whose symbol equals it up to letter case, the result
\* of get_categories_by_names holds, for every requested name, the category
\* row whose name equals it up to letter case, and neither holds a row
\* nobody asked for.
C23_CaseInsensitiveLookup ==
    lookup # NoLookup
    => /\ \A i \in DOMAIN lookup.symbols, j \in DOMAIN genes :
             SameName(genes[j].symbol, lookup.symbols[i])
             => \E e \in DOMAIN lookup.genes : lookup.genes[e].v = genes[j]
       /\ \A e \in DOMAIN lookup.genes :
             \E i \in DOMAIN lookup.symbols :
                SameName(lookup.genes[e].v.symbol, lookup.symbols[i])
       /\ \A i \in DOMAIN lookup.names, j \in DOMAIN categories :
             SameName(categories[j].name, lookup.names[i])
             => \E e \in DOMAIN lookup.categories :
                   lookup.categories[e].v = categories[j]
       /\ \A e \in DOMAIN lookup.categories :
             \E i \in DOMAIN lookup.names :
                SameName(lookup.categories[e].v.name, lookup.names[i])

\* C24: while a classifier task of an /analyze request is outstanding, the
\* request stays at its await: it makes no call, has no response, and a
\* step that changes a table is the handler step of another request.
C24_AwaitAll ==
    [][\A r \in Requests :
          (pc[r] = "fetching" /\ Len(tasks[r]) < Len(missing[r]))
          => /\ pc'[r] = "fetching"
             /\ trace'[r] = <<>>
             /\ resp'[r] = NoResponse
             /\ (genes' # genes \/ categories' # categories)
                   => \E q \in Requests \ {r}, endpoint \in {"/analyze", "/confirm-categories"} :
                         HandlerStep(q, endpoint)]_vars

\* An /analyze request with two classifier tasks, one of them answered with
\* the default, has written its genes after both tasks completed.
C24_Witness ==
    \E r \in Requests :
        /\ pc[r] = "done"
        /\ req[r].endpoint = "/analyze"
        /\ Len(missing[r]) = 2
        /\ Len(tasks[r]) = 2
        /\ \E i \in DOMAIN tasks[r] : tasks[r][i].failed
        /\ \E i \in DOMAIN trace[r] :
              trace[r][i].op = "bulk_create_genes" /\ ~trace[r][i].failed

\* The distinct uppercased symbols of a gene list that have no gene row.
AbsentSymbols(geneRows, gene_list) ==
    {Upper(gene_list[i]) : i \in DOMAIN gene_list}
    \ {geneRows[j].symbol : j \in DOMAIN geneRows}

\* C25: when /analyze is accepted, the classifier requests it dispatches are
\* one per distinct uppercased symbol of the list that has no gene row, and
\* none for a symbol that has one; a request never makes more classifier
\* calls than it dispatched.
C25_OneCallPerSymbol ==
    [][\A r \in Requests :
          /\ (pc[r] = "idle" /\ pc'[r] # "idle" /\ req'[r].endpoint = "/analyze")
             => /\ Range(missing'[r]) = AbsentSymbols(genes, req'[r].original_gene_list)
                /\ Len(missing'[r])
                      = Cardinality(AbsentSymbols(genes, req'[r].original_gene_list))
          /\ Len(tasks'[r]) <= Len(missing'[r])]_vars

\* The position at which a node was added to the graph of a result.
NodePosition(result, gene) ==
    CHOOSE i \in DOMAIN result.nodes : result.nodes[i].id = gene

\* A list of entries <<gene, key>> is the top list of a result whose nodes
\* have the keys nodeKeys: min(5, |V|) distinct nodes with their own keys,
\* keys not increasing, equal keys in the order the nodes were added, and
\* every node left out ranked after every node listed.
IsTopList(result, top, nodeKeys) ==
    /\ Len(top) = (IF result.total_nodes < 5 THEN result.total_nodes ELSE 5)
    /\ \A i \in DOMAIN top :
          /\ \E n \in DOMAIN result.nodes : result.nodes[n].id = top[i][1]
          /\ top[i][2] = nodeKeys[NodePosition(result, top[i][1])]
    /\ \A i, j \in DOMAIN top :
          i < j => /\ top[i][1] # top[j][1]
                   /\ top[i][2] >= top[j][2]
                   /\ top[i][2] = top[j][2]
                        => NodePosition(result, top[i][1]) < NodePosition(result, top[j][1])
    /\ \A n \in DOMAIN result.nodes :
          (\A i \in DOMAIN top : top[i][1] # result.nodes[n].id)
          => \A i \in DOMAIN top :
                /\ nodeKeys[n] <= top[i][2]
                /\ nodeKeys[n] = top[i][2] => NodePosition(result, top[i][1]) < n

\* C26: in every non-empty analysis result top_hubs is the top list of the
\* nodes by raw degree and top_bottlenecks the top list by (rounded)
\* betweenness: min(5, |V|) entries, keys not increasing, no node left out
\* ranks above a listed one, equal keys in the order the nodes were added.
C26_TopLists ==
    (net.result # NoResponse /\ net.result.total_nodes > 0)
    => /\ IsTopList(net.result,
                    [i \in DOMAIN net.result.top_hubs |->
                        <<net.result.top_hubs[i].gene, net.result.top_hubs[i].degree>>],
                    [n \in DOMAIN net.result.nodes |-> net.result.nodes[n].node_degree])
       /\ IsTopList(net.result,
                    [i \in DOMAIN net.result.top_bottlenecks |->
                        <<net.result.top_bottlenecks[i].gene,
                          net.result.top_bottlenecks[i].betweenness>>],
                    [n \in DOMAIN net.result.nodes |-> net.result.nodes[n].betweenness])

\* A graph of six nodes whose two nodes of degree 3 and positive betweenness
\* were added last: both lists start with them, go on with nodes of equal
\* keys in the order they were added, and leave one of those out.
C26_Witness ==
    /\ net.result # NoResponse
    /\ net.result.total_nodes = 6
    /\ Len(net.result.top_hubs) = 5
    /\ Len(net.result.top_bottlenecks) = 5
    /\ NodePosition(net.result, net.result.top_hubs[1].gene) > 2
    /\ net.result.top_hubs[2].degree > net.result.top_hubs[3].degree
    /\ net.result.top_hubs[3].degree = net.result.top_hubs[5].degree
    /\ NodePosition(net.result, net.result.top_bottlenecks[1].gene) > 2
    /\ net.result.top_bottlenecks[2].betweenness > net.result.top_bottlenecks[3].betweenness
    /\ net.result.top_bottlenecks[3].betweenness = net.result.top_bottlenecks[5].betweenness

\* The cleaned symbols of a gene list: trimmed, uppercased, blanks dropped.
CleanedSymbols(gene_list) ==
    {Upper(Strip(gene_list[i])) : i \in DOMAIN gene_list} \ {<<>>}

\* C27: every analysis result a request returns, the empty one included, has
\* the lists genes_found and genes_not_found; they are disjoint, together
\* they hold exactly the cleaned symbols of the request, and genes_found
\* holds exactly those that are nodes of the returned graph.
C27_FoundPartition ==
    \A r \in Requests :
        (pc[r] = "done" /\ resp[r].kind = "analysis")
        => /\ "genes_found" \in DOMAIN resp[r]
           /\ "genes_not_found" \in DOMAIN resp[r]
           /\ Range(resp[r].genes_found) \cap Range(resp[r].genes_not_found) = {}
           /\ Range(resp[r].genes_found) \cup Range(resp[r].genes_not_found)
                = CleanedSymbols(req[r].original_gene_list)
           /\ Range(resp[r].genes_found)
                = {g \in CleanedSymbols(req[r].original_gene_list) :
                      \E n \in DOMAIN resp[r].nodes : resp[r].nodes[n].id = g}

\* C28: when an /analyze request that had missing symbols returns an
\* analysis result, whatever other request ran while it was suspended at the
\* classifier await, every one of its missing symbols has a gene row, and no
\* symbol has two rows.
C28_OverlapSaved ==
    [][\A r \in Requests :
          (HandlerStep(r, "/analyze") /\ pc[r] = "fetching"
           /\ resp'[r].kind = "analysis")
          => /\ \A i \in DOMAIN missing[r] :
                   \E j \in DOMAIN genes' : genes'[j].symbol = missing[r][i]
             /\ \A j, k \in DOMAIN genes' :
                   genes'[j].symbol = genes'[k].symbol => j = k]_vars

\* The categories table has a row named Unknown.
HasUnknown(categoryRows) ==
    \E j \in DOMAIN categoryRows : categoryRows[j].name = Unknown

\* The gene rows that hold the fallback record of their symbol.
Placeholders(geneRows) ==
    {j \in DOMAIN geneRows :
        geneRows[j].description = default_response(geneRows[j].symbol).description}

\* C29: when a classifier call of an /analyze request failed and the
\* categories table has no row named Unknown, the request ends with
\* review_required, Unknown among new_categories, and no write; and a step
\* that adds a placeholder gene row is a /confirm-categories step or starts
\* from a table that has the Unknown row.
C29_UnknownReviewed ==
    [][/\ \A r \in Requests :
             (/\ HandlerStep(r, "/analyze")
              /\ \E i \in DOMAIN tasks[r] : tasks[r][i].failed
              /\ ~HasUnknown(categories))
             => /\ resp'[r].kind = "review_required"
                /\ Unknown \in Range(resp'[r].new_categories)
                /\ genes' = genes
                /\ categories' = categories
       /\ Cardinality(Placeholders(genes')) > Cardinality(Placeholders(genes))
             => \/ HasUnknown(categories)
                \/ \E r \in Requests : HandlerStep(r, "/confirm-categories")]_vars

\* The last /confirm-categories call of slot r was a repetition of the call
\* before it.
Replayed(r) ==
    /\ pc[r] = "done"
    /\ req[r].endpoint = "/confirm-categories"
    /\ watch.state = "replayed"
    /\ watch = Watch("replayed", req[r])

\* C30: a second /confirm-categories call with the same new_categories and
\* pending_genes leaves the categories and genes tables as the first call
\* left them, and returns the network analysis unless its interaction fetch
\* fails.
C30_ReplayNoOp ==
    [][\A r \in Requests :
          (pc[r] = "done" /\ Replayed(r)')
          => /\ categories' = categories
             /\ genes' = genes
             /\ \/ resp'[r].kind = "analysis"
                \/ \E i \in DOMAIN trace'[r] :
                      /\ trace'[r][i].op = "fetch_string_interactions"
                      /\ trace'[r][i].failed]_vars

\* An approval that named a category and a gene was repeated: both rows are
\* in the tables, both writes of the repetition failed on them, and the
\* repetition returned the analysis.
C30_Witness ==
    \E r \in Requests :
        /\ Replayed(r)
        /\ resp[r].kind = "analysis"
        /\ req[r].new_categories # <<>>
        /\ req[r].pending_genes # <<>>
        /\ \E j \in DOMAIN categories :
              /\ categories[j].name = req[r].new_categories[1]
              /\ categories[j].color = DefaultColor
        /\ \E j \in DOMAIN genes :
              /\ genes[j].symbol = Upper(req[r].pending_genes[1].symbol)
              /\ genes[j].description = req[r].pending_genes[1].description
        /\ \E i, k \in DOMAIN trace[r] :
              /\ trace[r][i].op = "bulk_create_categories" /\ trace[r][i].failed
              /\ trace[r][k].op = "bulk_create_genes" /\ trace[r][k].failed

====
